---- MODULE Spec2Model ----
(***************************************************************************)
(* A model of the church pairing bot (src/pairbot.py): the in-memory group *)
(* table self.data, the JSON snapshot on disk, the chat command handlers    *)
(* and the weekly job send_weekly_pairings.                                 *)
(*                                                                          *)
(* Everything runs on one asyncio event loop.  A handler or the job runs    *)
(* without interruption from one await to the next, so every action below   *)
(* is one such segment.  The command handlers await only their final reply, *)
(* after all their work on self.data; the weekly job awaits                 *)
(* bot.send_message in the middle of its loop over the groups, and the      *)
(* command handlers can run while it waits there.                           *)
(***************************************************************************)
EXTENDS Integers, Sequences, FiniteSets, TLC

\* ---- bounds of the model ----
MaxRuns == 2           \* firings of the weekly trigger in SpecRetention
MaxRoster == 5         \* largest roster handed to generate_pairs in SpecPairs
TicksPerDay == 2       \* clock ticks per calendar day

\* ---- constants of the program ----
HistoryLimit == 10     \* pairbot.py:349, records kept per group
DaysPerWeek == 7       \* pairbot.py:41, the trigger fires once a week
TicksPerWeek == DaysPerWeek * TicksPerDay

\* The group chats that talk to the bot and the users who write in them.
Chats == {1, 2}
Users == {1, 2, 3}
\* Who is in which chat: one larger and one small group, or two groups of two.
LargeAndSmall == (1 :> {1, 2, 3}) @@ (2 :> {1})
TwoAndTwo == (1 :> {1, 2}) @@ (2 :> {1, 2})
Titles == {"Fellowship", "Fellowship (renamed)"}

\* Python's None where an identifier, a name or a date is expected.
NoneId == 0
NoneName == "None"
NoneDate == -1

EmptyMap == <<>>

\* update.effective_user.username or first_name or "Unknown": never empty.
UserName(u) == "user" \o ToString(u)

Remove(f, k) == [x \in DOMAIN f \ {k} |-> f[x]]
Put(f, k, v) == (k :> v) @@ f

\* The permutations of a finite set, as sequences: the outcomes of random.shuffle.
shuffle(S) ==
    {p \in [1..Cardinality(S) -> S] : \A i, j \in 1..Cardinality(S) : p[i] = p[j] => i = j}

\* ---- generate_pairs (pairbot.py:253-267) ----
\* An item of users_dict.items(): the user id with its user data.
Item(users_dict, u) ==
    [id |-> u, username |-> users_dict[u].username, joined_at |-> users_dict[u].joined_at]
NoneItem == [id |-> NoneId, username |-> NoneName, joined_at |-> NoneDate]

\* user_items is the shuffled list; Python steps i = 0, 2, 4, ... over it.
generate_pairs_drops_odd(users_dict, user_items) ==
    [k \in 1..(Len(user_items) \div 2) |->
        <<Item(users_dict, user_items[2 * k - 1]), Item(users_dict, user_items[2 * k])>>]
generate_pairs_single_first(users_dict, user_items) ==
    LET n == Len(user_items)
    IN  IF n % 2 = 0
        THEN [k \in 1..(n \div 2) |->
                <<Item(users_dict, user_items[2 * k - 1]), Item(users_dict, user_items[2 * k])>>]
        ELSE [k \in 1..((n + 1) \div 2) |->
                IF k = 1 THEN <<Item(users_dict, user_items[1]), NoneItem>>
                ELSE <<Item(users_dict, user_items[2 * k - 2]),
                       Item(users_dict, user_items[2 * k - 1])>>]
generate_pairs(users_dict, user_items) ==
    [k \in 1..((Len(user_items) + 1) \div 2) |->
        IF 2 * k <= Len(user_items)
        THEN <<Item(users_dict, user_items[2 * k - 1]), Item(users_dict, user_items[2 * k])>>
        ELSE <<Item(users_dict, user_items[2 * k - 1]), NoneItem>>]

\* ---- the pairing record built by send_weekly_pairings (pairbot.py:304-343) ----
PairEntry_same_user(pair) ==
    [user1_id |-> pair[1].id, user1_name |-> pair[1].username,
     user2_id |-> pair[1].id, user2_name |-> pair[2].username]
PairEntry(pair) ==
    [user1_id |-> pair[1].id, user1_name |-> pair[1].username,
     user2_id |-> pair[2].id, user2_name |-> pair[2].username]
PairingRecord(pairs, date) ==
    [date |-> date, pairs |-> [i \in 1..Len(pairs) |-> PairEntry(pairs[i])]]

\* pairbot.py:345-350: append, then keep the last HistoryLimit records.
AppendHistory_keep_first(history, record) ==
    LET h == Append(history, record)
    IN  IF Len(h) > HistoryLimit THEN SubSeq(h, 1, HistoryLimit) ELSE h
AppendHistory(history, record) ==
    LET h == Append(history, record)
    IN  IF Len(h) > HistoryLimit THEN SubSeq(h, Len(h) - HistoryLimit + 1, Len(h)) ELSE h

\* ---- mypair's scan for the last partner (pairbot.py:179-196) ----
\* The first pair of a record that holds user_id, 0 when none does.
RECURSIVE FirstPairWith(_, _, _)
FirstPairWith(record_pairs, i, user_id) ==
    IF i > Len(record_pairs) THEN 0
    ELSE IF user_id \in {record_pairs[i].user1_id, record_pairs[i].user2_id} THEN i
    ELSE FirstPairWith(record_pairs, i + 1, user_id)

PartnerIn(pair, user_id) ==
    IF pair.user1_id = user_id THEN pair.user2_name ELSE pair.user1_name

\* reversed(pairing_history): k runs from the last record down to the first;
\* found is <<last_partner, last_date>> so far.  The outer loop breaks only
\* on a truthy last_partner (pairbot.py:195).
RECURSIVE ScanHistory(_, _, _, _)
ScanHistory(history, k, user_id, found) ==
    IF k = 0 THEN found
    ELSE LET m == FirstPairWith(history[k].pairs, 1, user_id)
             now_found == IF m = 0 THEN found
                          ELSE <<PartnerIn(history[k].pairs[m], user_id), history[k].date>>
         IN  IF now_found[1] # NoneName THEN now_found
             ELSE ScanHistory(history, k - 1, user_id, now_found)

\* datetime.fromisoformat(last_date).strftime("%B %d, %Y"): the calendar day.
FormatDate(date) == date \div TicksPerDay

\* pairbot.py:213-218: <<partner, formatted date>> shown, or none.
LastPartnerShown(history, user_id) ==
    LET found == ScanHistory(history, Len(history), user_id, <<NoneName, NoneDate>>)
    IN  IF found[1] # NoneName /\ found[2] # NoneDate
        THEN <<found[1], FormatDate(found[2])>>
        ELSE <<NoneName, NoneDate>>

\* ---- the state ----
VARIABLES
    data,       \* self.data: chat id -> group
    order,      \* the insertion order of self.data's keys
    disk,       \* the file church_pairings.json
    now,        \* the UTC clock, in ticks; it moves on from one firing of the trigger to the next
    jobPc,      \* where send_weekly_pairings stands: idle, await_need, await_announce
    jobIdx,     \* position of the job's iteration in order
    jobLen,     \* len(self.data) when the job's iteration began
    users_arg,  \* the users_dict of the generate_pairs call of the group being announced
    pairs,      \* what that call returned
    outbox,     \* the send_message calls of the job's latest run
    jobLog      \* what the job's latest run has logged

vars == <<data, order, disk, now, jobPc, jobIdx, jobLen, users_arg, pairs, outbox, jobLog>>

ClockStart == HistoryLimit * TicksPerWeek
\* The clock after one firing of the trigger, and after MaxRuns firings.
WeekOne == ClockStart + TicksPerWeek
ClockEnd == ClockStart + MaxRuns * TicksPerWeek

\* ---- load_data and save_data (pairbot.py:45-61) ----
Missing == [state |-> "missing", content |-> EmptyMap, keys |-> <<>>]
Corrupt == [state |-> "corrupt", content |-> EmptyMap, keys |-> <<>>]
Snapshot(d, o) == [state |-> "valid", content |-> d, keys |-> o]
\* A file that exists and cannot be opened for reading, and a file that
\* holds valid JSON that is not an object: the empty list.
Unreadable == [state |-> "unreadable", content |-> EmptyMap, keys |-> <<>>]
NotMapping == [state |-> "not_mapping", content |-> <<>>, keys |-> <<>>]

\* pairbot.py:45-53.  os.path.exists, then open and json.load under an
\* except clause for JSONDecodeError and FileNotFoundError only: the
\* PermissionError of a file that cannot be opened propagates, and whatever
\* json.load returns is returned as it is.
load_data(file) ==
    IF file.state = "missing"
    THEN [raised |-> FALSE, warned |-> FALSE, value |-> EmptyMap, keys |-> <<>>, mapping |-> TRUE]
    ELSE IF file.state = "unreadable"
    THEN [raised |-> TRUE, warned |-> FALSE, value |-> EmptyMap, keys |-> <<>>, mapping |-> TRUE]
    ELSE IF file.state = "corrupt"
    THEN [raised |-> FALSE, warned |-> TRUE, value |-> EmptyMap, keys |-> <<>>, mapping |-> TRUE]
    ELSE [raised |-> FALSE, warned |-> FALSE, value |-> file.content, keys |-> file.keys,
          mapping |-> file.state = "valid"]

\* open(DATA_FILE, 'w') can fail before it truncates the file, json.dump can
\* fail after; either way save_data logs the error and returns.
SaveOutcomes == {"ok", "open_failed", "write_failed"}
save_data_skipped(d, o, outcome) == disk
save_data(d, o, outcome) ==
    IF outcome = "ok" THEN Snapshot(d, o)
    ELSE IF outcome = "open_failed" THEN disk
    ELSE Corrupt
SaveLog(outcome) == IF outcome = "ok" THEN <<>> ELSE <<"save_failed">>

RosterSize(d, g) == IF g \in DOMAIN d THEN Cardinality(DOMAIN d[g].users) ELSE 0

\* ---- the stores the bot can start from ----
\* A record of an earlier week: users 1 and 2 paired.
OldRecord(k) ==
    [date |-> k * TicksPerWeek,
     pairs |-> <<[user1_id |-> 1, user1_name |-> UserName(1),
                  user2_id |-> 2, user2_name |-> UserName(2)]>>]
\* One group that has been paired every week for HistoryLimit - 1 weeks.
SeasonedStore ==
    (1 :> [chat_title |-> "Fellowship", users |-> EmptyMap, created_at |-> 0,
           pairing_history |-> [k \in 1..(HistoryLimit - 1) |-> OldRecord(k)]])

JobIdle ==
    /\ jobPc = "idle"
    /\ jobIdx = 0
    /\ jobLen = 0
    /\ users_arg = EmptyMap
    /\ pairs = <<>>
    /\ outbox = <<>>
    /\ jobLog = <<>>

\* No snapshot file: load_data returns {}.
InitFresh ==
    /\ data = EmptyMap /\ order = <<>> /\ disk = Missing
    /\ now = ClockStart
    /\ JobIdle

\* The snapshot of a group in its tenth week.
InitSeasoned ==
    /\ data = SeasonedStore /\ order = <<1>> /\ disk = Snapshot(SeasonedStore, <<1>>)
    /\ now = ClockStart
    /\ JobIdle

\* A command handler runs when the job is not running: before it, after it,
\* or while it awaits a send.
CanRunHandler == jobPc \in {"idle", "await_need", "await_announce"}

JobLocals == <<jobPc, jobIdx, jobLen, users_arg, pairs, outbox, jobLog>>

\* ---- /pairme (pairbot.py:82-130) ----
NewGroup(chat_title, t) ==
    [chat_title |-> chat_title, users |-> EmptyMap, created_at |-> t,
     pairing_history |-> <<>>]
NewUser(username, t) == [username |-> username, joined_at |-> t]

\* pairbot.py:96-106: create the group if absent, then refresh its title.
WithGroup(d, g, chat_title, t) ==
    LET d1 == IF g \in DOMAIN d THEN d ELSE Put(d, g, NewGroup(chat_title, t))
    IN  [d1 EXCEPT ![g].chat_title = chat_title]

\* pairbot.py:108-121: the store after /pairme by u in group g.
Register_overwrite(d, g, u, chat_title, t) ==
    LET d2 == WithGroup(d, g, chat_title, t)
    IN  [d2 EXCEPT ![g].users = Put(@, u, NewUser(UserName(u), t))]
Register(d, g, u, chat_title, t) ==
    LET d2 == WithGroup(d, g, chat_title, t)
    IN  IF u \in DOMAIN d2[g].users THEN d2
        ELSE [d2 EXCEPT ![g].users = Put(@, u, NewUser(UserName(u), t))]

\* What /pairme answers (pairbot.py:90-94, 109-113, 125-130).
PairmeReply(d, g, u, chat_type) ==
    IF chat_type = "private" THEN "private"
    ELSE IF g \in DOMAIN d /\ u \in DOMAIN d[g].users THEN "AlreadyRegistered"
    ELSE "Added"

pairme_checks_chat_late(g, u, chat_type, chat_title, outcome) ==
    /\ CanRunHandler
    /\ IF chat_type = "private"
       THEN /\ data' = WithGroup(data, g, chat_title, now)
            /\ order' = IF g \in DOMAIN data THEN order ELSE Append(order, g)
            /\ disk' = disk
       ELSE /\ data' = Register(data, g, u, chat_title, now)
            /\ order' = IF g \in DOMAIN data THEN order ELSE Append(order, g)
            /\ IF PairmeReply(data, g, u, chat_type) = "AlreadyRegistered"
               THEN disk' = disk
               ELSE disk' = save_data(data', order', outcome)
    /\ UNCHANGED <<now, JobLocals>>
pairme_rolls_back(g, u, chat_type, chat_title, outcome) ==
    /\ CanRunHandler
    /\ IF chat_type = "private"
       THEN UNCHANGED <<data, order, disk>>
       ELSE LET d == Register(data, g, u, chat_title, now)
                o == IF g \in DOMAIN data THEN order ELSE Append(order, g)
                added == PairmeReply(data, g, u, chat_type) = "Added"
            IN  /\ data' = IF added /\ outcome # "ok" THEN data ELSE d
                /\ order' = IF added /\ outcome # "ok" THEN order ELSE o
                /\ disk' = IF added THEN save_data(d, o, outcome) ELSE disk
    /\ UNCHANGED <<now, JobLocals>>
pairme(g, u, chat_type, chat_title, outcome) ==
    /\ CanRunHandler
    /\ IF chat_type = "private"
       THEN UNCHANGED <<data, order, disk>>
       ELSE /\ data' = Register(data, g, u, chat_title, now)
            /\ order' = IF g \in DOMAIN data THEN order ELSE Append(order, g)
            /\ IF PairmeReply(data, g, u, chat_type) = "AlreadyRegistered"
               THEN disk' = disk
               ELSE disk' = save_data(data', order', outcome)
    /\ UNCHANGED <<now, JobLocals>>

\* ---- /leave (pairbot.py:132-156) ----
Unregister_clears_roster(d, g, u) == [d EXCEPT ![g].users = EmptyMap]
Unregister(d, g, u) == [d EXCEPT ![g].users = Remove(@, u)]

LeaveReply(d, g, u, chat_type) ==
    IF chat_type = "private" THEN "private"
    ELSE IF g \notin DOMAIN d \/ u \notin DOMAIN d[g].users THEN "NotRegistered"
    ELSE "Removed"

leave(g, u, chat_type, outcome) ==
    /\ CanRunHandler
    /\ IF LeaveReply(data, g, u, chat_type) = "Removed"
       THEN /\ data' = Unregister(data, g, u)
            /\ disk' = save_data(data', order, outcome)
       ELSE UNCHANGED <<data, disk>>
    /\ UNCHANGED <<order, now, JobLocals>>

\* ---- /mypair (pairbot.py:158-225) ----
\* What /mypair answers: the registration status, the count shown to a
\* registered user, and the last partner with the day of that pairing.
MypairReply(d, g, u, chat_type) ==
    IF chat_type = "private"
    THEN [result |-> "private", count |-> 0, partner |-> NoneName, date |-> NoneDate]
    ELSE IF g \notin DOMAIN d
    THEN [result |-> "no_group", count |-> 0, partner |-> NoneName, date |-> NoneDate]
    ELSE LET shown == LastPartnerShown(d[g].pairing_history, u)
             registered == u \in DOMAIN d[g].users
         IN  [result |-> IF registered THEN "registered" ELSE "not_registered",
              count |-> IF registered THEN RosterSize(d, g) ELSE 0,
              partner |-> shown[1], date |-> shown[2]]

\* The handler only reads self.data and replies.
mypair(g, u, chat_type) ==
    /\ CanRunHandler
    /\ MypairReply(data, g, u, chat_type).result \in
           {"private", "no_group", "registered", "not_registered"}
    /\ UNCHANGED vars

\* ---- /status (pairbot.py:227-251) ----
StatusReply(d, g, chat_type) ==
    IF chat_type = "private" THEN [result |-> "private", count |-> 0]
    ELSE IF RosterSize(d, g) = 0 THEN [result |-> "no_participants", count |-> 0]
    ELSE [result |-> "participants", count |-> RosterSize(d, g)]

status(g, u, chat_type) ==
    /\ CanRunHandler
    /\ StatusReply(data, g, chat_type).count >= 0
    /\ UNCHANGED vars

\* ---- /start (pairbot.py:63-80) ----
start(g, u, chat_type) ==
    /\ CanRunHandler
    /\ UNCHANGED vars

\* ---- send_weekly_pairings (pairbot.py:269-372) ----
\* One send_message call: the chat, which message, its numbered lines, and
\* whether it went out (pending while the job awaits it).
Message(g, kind, lines) == [chat |-> g, kind |-> kind, lines |-> lines, ok |-> "pending"]

\* pairbot.py:316-343: one line per pair, the names it shows.
AnnounceLines_matched_only(ps) ==
    [i \in 1..(Len(ps) - (IF ps # <<>> /\ ps[Len(ps)][2] = NoneItem THEN 1 ELSE 0)) |->
        <<ps[i][1].username, ps[i][2].username>>]
AnnounceLines(ps) == [i \in 1..Len(ps) |-> <<ps[i][1].username, ps[i][2].username>>]

\* pairbot.py:296-350: the store once group g has been paired and recorded.
RecordPairs(d, g, ps, t) ==
    [d EXCEPT ![g].pairing_history = AppendHistory(@, PairingRecord(ps, t))]

\* pairbot.py:363-364, reached only when the send returned.
ClearRoster_resets_group(d, g) ==
    [d EXCEPT ![g].users = EmptyMap, ![g].pairing_history = <<>>]
ClearRoster(d, g) == [d EXCEPT ![g].users = EmptyMap]
AfterAnnounce(d, g, sent) == IF sent THEN ClearRoster(d, g) ELSE d

\* pairbot.py:286-294: after the "need more participants" send, nothing.
AfterNeed_clears(d, g, sent) == ClearRoster(d, g)
AfterNeed(d, g, sent) == d

\* pairbot.py:282-284: groups with no users are skipped without an await.
\* The first position from idx on whose group has users, n + 1 when none has.
RECURSIVE NextStop(_, _, _)
NextStop(d, idx, n) ==
    IF idx > n THEN n + 1
    ELSE IF DOMAIN d[order[idx]].users # {} THEN idx
    ELSE NextStop(d, idx + 1, n)

\* pairbot.py:367-368: the except clause only logs, the loop goes on.
AfterSendFailure_aborts(idx, n) == n + 1
AfterSendFailure(idx, n) == idx + 1

\* The job from the top of its for loop, about to visit position idx of an
\* iteration begun over n keys, until it awaits a send or returns.  d is the
\* store as the job has left it so far, lg its log lines and ob its sends.
Advance(d, idx, n, t, lg, ob) ==
    IF Len(order) # n
    THEN \* RuntimeError: dictionary changed size during iteration, raised by
         \* the for statement outside the try; save_data is not reached.
         /\ data' = d
         /\ disk' = disk
         /\ jobPc' = "idle" /\ jobIdx' = 0 /\ jobLen' = 0
         /\ users_arg' = EmptyMap /\ pairs' = <<>>
         /\ outbox' = ob
         /\ jobLog' = Append(lg, "raised")
    ELSE LET j == NextStop(d, idx, n)
         IN  IF j > n
             THEN \* pairbot.py:370-372
                  \E outcome \in SaveOutcomes :
                      /\ data' = d
                      /\ disk' = save_data(d, order, outcome)
                      /\ jobPc' = "idle" /\ jobIdx' = 0 /\ jobLen' = 0
                      /\ users_arg' = EmptyMap /\ pairs' = <<>>
                      /\ outbox' = ob
                      /\ jobLog' = lg \o SaveLog(outcome) \o <<"completed">>
             ELSE LET g == order[j]
                  IN  IF Cardinality(DOMAIN d[g].users) < 2
                      THEN /\ data' = d
                           /\ disk' = disk
                           /\ jobPc' = "await_need" /\ jobIdx' = j /\ jobLen' = n
                           /\ users_arg' = EmptyMap /\ pairs' = <<>>
                           /\ outbox' = Append(ob, Message(g, "need", <<>>))
                           /\ jobLog' = lg
                      ELSE \E user_items \in shuffle(DOMAIN d[g].users) :
                               LET ps == generate_pairs(d[g].users, user_items)
                               IN  /\ data' = RecordPairs(d, g, ps, t)
                                   /\ disk' = disk
                                   /\ jobPc' = "await_announce"
                                   /\ jobIdx' = j /\ jobLen' = n
                                   /\ users_arg' = d[g].users /\ pairs' = ps
                                   /\ outbox' = Append(ob, Message(g, "pairings",
                                                                   AnnounceLines(ps)))
                                   /\ jobLog' = lg

\* The cron trigger fires, a week after it last did (pairbot.py:39-43, 269-277).
JobStart(until) ==
    /\ jobPc = "idle"
    /\ now < until
    /\ now' = now + TicksPerWeek
    /\ order' = order
    /\ IF DOMAIN data = {}
       THEN /\ jobLog' = <<"no_groups">>
            /\ outbox' = <<>>
            /\ UNCHANGED <<data, disk, jobPc, jobIdx, jobLen, users_arg, pairs>>
       ELSE Advance(data, 1, Len(order), now', <<>>, <<>>)

\* The send_message the job awaits returns (sent) or raises (not sent).
JobSendReturn(sent) ==
    /\ jobPc \in {"await_need", "await_announce"}
    /\ UNCHANGED <<order, now>>
    /\ LET g == order[jobIdx]
           d == IF jobPc = "await_need" THEN AfterNeed(data, g, sent)
                ELSE AfterAnnounce(data, g, sent)
           ob == [outbox EXCEPT ![Len(outbox)].ok = IF sent THEN "ok" ELSE "failed"]
           lg == IF ~sent THEN Append(jobLog, "send_failed")
                 ELSE IF jobPc = "await_announce" THEN Append(jobLog, "sent_cleared")
                 ELSE jobLog
           idx == IF sent THEN jobIdx + 1 ELSE AfterSendFailure(jobIdx, jobLen)
       IN  Advance(d, idx, jobLen, now, lg, ob)

ChatTypes == {"private", "group"}

\* The steps of the bot with its commands coming from the given chats and
\* their members under the given titles, its saves ending in the given ways,
\* and the trigger firing until the clock reads until.
Step(chats, members, titles, saves, until) ==
    \/ \E g \in chats : \E u \in members[g], c \in ChatTypes, title \in titles, outcome \in saves :
          pairme(g, u, c, title, outcome)
    \/ \E g \in chats : \E u \in members[g], c \in ChatTypes, outcome \in saves :
          leave(g, u, c, outcome)
    \/ \E g \in chats : \E u \in members[g], c \in ChatTypes : mypair(g, u, c)
    \/ \E g \in chats : \E u \in members[g], c \in ChatTypes : status(g, u, c)
    \/ \E g \in chats : \E u \in members[g], c \in ChatTypes : start(g, u, c)
    \/ JobStart(until)
    \/ \E sent \in BOOLEAN : JobSendReturn(sent)

\* The bot from a fresh start through its first weekly run: a group of up to
\* three and a second group of one.
Next == Step(Chats, LargeAndSmall, {"Fellowship"}, {"ok"}, WeekOne)
Spec == InitFresh /\ [][Next]_vars

\* The same with two groups of up to two.
NextTwoGroups == Step(Chats, TwoAndTwo, {"Fellowship"}, {"ok"}, WeekOne)
SpecTwoGroups == InitFresh /\ [][NextTwoGroups]_vars

\* The bot of one long-running group of up to three through one more week.
NextHistory == Step({1}, LargeAndSmall, {"Fellowship"}, {"ok"}, WeekOne)
SpecHistory == InitSeasoned /\ [][NextHistory]_vars

\* The bot of one long-running group of up to two through MaxRuns more weeks.
NextRetention == Step({1}, TwoAndTwo, {"Fellowship"}, {"ok"}, ClockEnd)
SpecRetention == InitSeasoned /\ [][NextRetention]_vars

\* ---- the life of the process (pairbot.py:24-28, 400-413) ----
\* The process ends: a signal, a crash of the host, a power cut.  Nothing of
\* its memory is left.  A process that ends inside save_data, after open has
\* truncated the file, leaves the file as a failed json.dump leaves it.
Shutdown ==
    /\ jobPc \notin {"down", "failed"}
    /\ data' = EmptyMap /\ order' = <<>>
    /\ jobPc' = "down" /\ jobIdx' = 0 /\ jobLen' = 0
    /\ users_arg' = EmptyMap /\ pairs' = <<>>
    /\ outbox' = <<>> /\ jobLog' = <<>>
    /\ UNCHANGED <<disk, now>>

\* ChurchPairingBot.__init__: self.data = self.load_data().  An exception of
\* load_data ends main() (pairbot.py:412-413).  A loaded value that is not a
\* dict becomes self.data all the same; the model follows that process no
\* further (its /pairme raises TypeError at pairbot.py:98).
Startup ==
    /\ jobPc = "down"
    /\ LET r == load_data(disk)
       IN  /\ data' = r.value
           /\ order' = r.keys
           /\ jobPc' = IF r.raised THEN "failed"
                       ELSE IF ~r.mapping THEN "not_a_store"
                       ELSE "idle"
           /\ jobLog' = IF r.raised THEN <<"fatal">>
                        ELSE IF r.warned THEN <<"load_warning">>
                        ELSE <<>>
    /\ jobIdx' = 0 /\ jobLen' = 0
    /\ users_arg' = EmptyMap /\ pairs' = <<>>
    /\ outbox' = <<>>
    /\ UNCHANGED <<disk, now>>

\* The files the bot can find when it starts.
Files == {Missing, Corrupt, Unreadable, NotMapping, Snapshot(SeasonedStore, <<1>>)}

InitDown ==
    /\ data = EmptyMap /\ order = <<>>
    /\ disk \in Files
    /\ now = ClockStart
    /\ jobPc = "down" /\ jobIdx = 0 /\ jobLen = 0
    /\ users_arg = EmptyMap /\ pairs = <<>>
    /\ outbox = <<>> /\ jobLog = <<>>

\* One group of up to two whose title changes, every save succeeding.
NextTitles == Step({1}, TwoAndTwo, Titles, {"ok"}, WeekOne)
SpecTitles == InitFresh /\ [][NextTitles]_vars

\* One group of up to two, saves that succeed or fail, and the process
\* ending and starting again.
NextLifecycle ==
    \/ Step({1}, TwoAndTwo, {"Fellowship"}, SaveOutcomes, WeekOne)
    \/ Shutdown
    \/ Startup
SpecLifecycle == InitDown /\ [][NextLifecycle]_vars

\* ---- generate_pairs on its own ----
\* The rosters of up to MaxRoster users, all of them registered at the start.
Rosters ==
    {[u \in S |-> NewUser(UserName(u), ClockStart)] : S \in SUBSET (1..MaxRoster)}

InitPairs ==
    /\ data = EmptyMap /\ order = <<>> /\ disk = Missing
    /\ now = ClockStart
    /\ jobPc = "call" /\ jobIdx = 0 /\ jobLen = 0
    /\ users_arg \in Rosters
    /\ pairs = <<>>
    /\ outbox = <<>> /\ jobLog = <<>>

CallGeneratePairs ==
    /\ jobPc = "call"
    /\ \E user_items \in shuffle(DOMAIN users_arg) :
           pairs' = generate_pairs(users_arg, user_items)
    /\ jobPc' = "returned"
    /\ UNCHANGED <<data, order, disk, now, jobIdx, jobLen, users_arg, outbox, jobLog>>

NextRoster ==
    /\ jobPc = "returned"
    /\ users_arg' \in Rosters
    /\ pairs' = <<>>
    /\ jobPc' = "call"
    /\ UNCHANGED <<data, order, disk, now, jobIdx, jobLen, outbox, jobLog>>

NextPairs == CallGeneratePairs \/ NextRoster
SpecPairs == InitPairs /\ [][NextPairs]_vars

\* ---- the claims ----
\* How often user id u occurs in the outcomes generate_pairs returned.
OccursInPairs(ps, u) ==
    Cardinality({ik \in (1..Len(ps)) \X {1, 2} : ps[ik[1]][ik[2]].id = u})
IsSingleton(pair) == pair[2] = NoneItem
Singletons(ps) == {i \in 1..Len(ps) : IsSingleton(ps[i])}
Matched(ps) == {i \in 1..Len(ps) : ~IsSingleton(ps[i])}
Returned == jobPc = "returned"
RosterOfCall == DOMAIN users_arg

\* C9: whatever the shuffle, the identifiers in the outcomes generate_pairs
\* returns are exactly those of the roster it was given, each once: none is
\* missing, none occurs twice and none comes from outside the roster.
C9_Exactness ==
    Returned =>
        /\ \A u \in RosterOfCall : OccursInPairs(pairs, u) = 1
        /\ \A i \in 1..Len(pairs) :
              /\ pairs[i][1].id \in RosterOfCall
              /\ pairs[i][2].id \in RosterOfCall \cup {NoneId}
              /\ pairs[i][1] = Item(users_arg, pairs[i][1].id)
              /\ ~IsSingleton(pairs[i]) => pairs[i][2] = Item(users_arg, pairs[i][2].id)
C9_Witness ==
    Returned /\ Cardinality(RosterOfCall) = MaxRoster /\ Len(pairs) > 0

\* C10: generate_pairs returns for every roster, and how many outcomes of
\* each kind depends on the roster's size n alone: n/2 matched pairs and no
\* singleton for even n; (n-1)/2 matched pairs and one singleton, the last
\* outcome, for odd n; nothing for n = 0 and one singleton for n = 1.
C10_Counts ==
    Returned =>
        LET n == Cardinality(RosterOfCall)
        IN  /\ n % 2 = 0 =>
                  Cardinality(Matched(pairs)) = n \div 2 /\ Singletons(pairs) = {}
            /\ n % 2 = 1 =>
                  /\ Cardinality(Matched(pairs)) = (n - 1) \div 2
                  /\ Singletons(pairs) = {Len(pairs)}
            /\ n = 0 => pairs = <<>>
            /\ n = 1 => Len(pairs) = 1 /\ IsSingleton(pairs[1])
C10_Witness ==
    /\ Returned
    /\ Cardinality(RosterOfCall) % 2 = 1
    /\ Cardinality(RosterOfCall) > 1
    /\ IsSingleton(pairs[Len(pairs)])

\* ---- the weekly job and the commands around it ----
Roster(d, g) == DOMAIN d[g].users
History(d, g) == d[g].pairing_history
LastRecord(d, g) == History(d, g)[Len(History(d, g))]
IdAt(entry, k) == IF k = 1 THEN entry.user1_id ELSE entry.user2_id
OccursInRecord(record, u) ==
    Cardinality({ik \in (1..Len(record.pairs)) \X {1, 2} : IdAt(record.pairs[ik[1]], ik[2]) = u})
IdsOfRecord(record) ==
    {IdAt(record.pairs[ik[1]], ik[2]) : ik \in (1..Len(record.pairs)) \X {1, 2}} \ {NoneId}

\* A step of the weekly job: only the job moves the clock and its own locals.
JobStep == <<now, JobLocals>>' # <<now, JobLocals>>
\* The step in which the send of the pairing announcement returns or raises.
AnnounceReturns == jobPc = "await_announce" /\ JobStep
\* The group whose send the job awaits.
Awaited == order[jobIdx]
\* The step in which the awaited send raises.
SendFails ==
    /\ jobPc \in {"await_need", "await_announce"}
    /\ JobStep
    /\ outbox'[Len(outbox)].ok = "failed"

\* C1: a registration cannot race with the weekly clear.  Whoever is in the
\* group's roster when the awaited announcement returns, without being in
\* the record this run has just appended, was registered while the job was
\* waiting: that participant is still in the roster after the step.
C1_NoRegistrationLost ==
    [][AnnounceReturns =>
          \A u \in Roster(data, Awaited) :
              u \notin IdsOfRecord(LastRecord(data, Awaited)) => u \in Roster(data', Awaited)]_vars

\* C2: once a group of two or more has been paired, its roster is empty and
\* its record stays, whether the announcement went out or not.
C2_ClearCommitted ==
    [][AnnounceReturns =>
          /\ Roster(data', Awaited) = {}
          /\ History(data', Awaited) = History(data, Awaited)]_vars

\* C3: a record the job appends covers the roster exactly: every participant
\* of the roster at pairing time occurs in it once, and nobody else occurs.
C3_RecordCoversRoster ==
    [][\A g \in DOMAIN data :
          History(data', g) # History(data, g) =>
              /\ \A u \in Users : OccursInRecord(LastRecord(data', g), u) =
                                     IF u \in Roster(data, g) THEN 1 ELSE 0
              /\ IdsOfRecord(LastRecord(data', g)) = Roster(data, g)
              /\ \A i \in 1..Len(LastRecord(data', g).pairs) :
                    LastRecord(data', g).pairs[i].user1_id # NoneId]_vars
C3_Witness ==
    /\ jobPc = "await_announce"
    /\ Len(LastRecord(data, Awaited).pairs) = 2
    /\ LastRecord(data, Awaited).pairs[2].user2_id = NoneId

\* C4: the job changes nothing in a group of fewer than two participants.
\* Every group a step of the job changes is either the one it goes on to
\* pair, which has two or more, or the paired one whose announcement it
\* awaited; so an empty group and a lone participant's group keep their
\* roster and history, whatever becomes of the "need more" send.
C4_SmallGroupsUntouched ==
    [][JobStep =>
          \A g \in DOMAIN data :
              data'[g] # data[g] =>
                  \/ jobPc = "await_announce" /\ g = Awaited
                  \/ /\ jobPc' = "await_announce" /\ g = order[jobIdx']
                     /\ Cardinality(Roster(data, g)) >= 2]_vars
C4_Witness ==
    /\ jobPc = "idle"
    /\ outbox # <<>>
    /\ outbox[1].kind = "need" /\ outbox[1].ok = "failed"
    /\ Cardinality(Roster(data, outbox[1].chat)) = 1
    /\ History(data, outbox[1].chat) = <<>>

Chronological(h) == \A i, j \in 1..Len(h) : i < j => h[i].date <= h[j].date
\* The step in which the job pairs a group, and that group.
PairsGroup == JobStep /\ jobPc' = "await_announce"
PairedGroup == order[jobIdx']

\* C6: a group's history never holds more than HistoryLimit records and is
\* in chronological order, the most recent record last; pairing a group
\* puts the new record at the end, and when the history is full the oldest
\* record goes and the other HistoryLimit - 1 stay as they were.
C6_BoundedHistory ==
    /\ [](\A g \in DOMAIN data :
             Len(History(data, g)) <= HistoryLimit /\ Chronological(History(data, g)))
    /\ [][PairsGroup =>
             LET h == History(data, PairedGroup)
                 h2 == History(data', PairedGroup)
             IN  /\ h2[Len(h2)].date = now'
                 /\ Len(h) < HistoryLimit => h2 = Append(h, h2[Len(h2)])
                 /\ Len(h) = HistoryLimit =>
                       /\ Len(h2) = HistoryLimit
                       /\ SubSeq(h2, 1, HistoryLimit - 1) = SubSeq(h, 2, HistoryLimit)]_vars
C6_Witness ==
    /\ 1 \in DOMAIN data
    /\ Len(History(data, 1)) = HistoryLimit
    /\ History(data, 1)[1] = OldRecord(2)
    /\ History(data, 1)[HistoryLimit].date = ClockEnd

\* The most recent record of h that holds u, 0 when none does.
MostRecentWith(h, u) ==
    LET held == {k \in 1..Len(h) : u \in IdsOfRecord(h[k])}
    IN  IF held = {} THEN 0 ELSE CHOOSE k \in held : \A m \in held : m <= k
\* The name beside u in a record that holds u, NoneName for a singleton.
PartnerInRecord(record, u) ==
    LET i == CHOOSE i \in 1..Len(record.pairs) : u \in {record.pairs[i].user1_id,
                                                         record.pairs[i].user2_id}
    IN  IF record.pairs[i].user1_id = u THEN record.pairs[i].user2_name
        ELSE record.pairs[i].user1_name

\* C7: whenever /mypair shows a last partner, the name and the date it shows
\* are those of the most recent record that holds the participant, never
\* those of an earlier record.
C7_MostRecentRecord ==
    \A g \in DOMAIN data : \A u \in Users :
        LET h == History(data, g)
            k == MostRecentWith(h, u)
            reply == MypairReply(data, g, u, "group")
        IN  reply.partner # NoneName =>
                /\ k > 0
                /\ reply.partner = PartnerInRecord(h[k], u)
                /\ reply.date = FormatDate(h[k].date)

\* ---- /pairme ----
\* C8: /pairme by a participant already in the roster answers
\* AlreadyRegistered and leaves the roster as it was, join timestamps
\* included; by anybody else it answers Added, creates the group if there
\* was none, and the roster is the old one with that one participant more.
C8_Register ==
    [][\A g \in Chats : \A u \in Users :
          (/\ data' # data
           /\ ~JobStep
           /\ \E title \in Titles, outcome \in SaveOutcomes :
                  pairme(g, u, "group", title, outcome)) =>
              IF g \in DOMAIN data /\ u \in Roster(data, g)
              THEN /\ PairmeReply(data, g, u, "group") = "AlreadyRegistered"
                   /\ data'[g].users = data[g].users
              ELSE /\ PairmeReply(data, g, u, "group") = "Added"
                   /\ g \in DOMAIN data'
                   /\ RosterSize(data', g) = RosterSize(data, g) + 1
                   /\ Roster(data', g) = (IF g \in DOMAIN data THEN Roster(data, g) ELSE {})
                                           \cup {u}
                   /\ data'[g].users[u] = NewUser(UserName(u), now)
                   /\ \A v \in Roster(data', g) \ {u} : data'[g].users[v] = data[g].users[v]]_vars
\* Somebody registered before the weekly run is still registered after it,
\* beside somebody who registered since.
C8_Witness ==
    \E g \in DOMAIN data : \E u, v \in Roster(data, g) :
        /\ data[g].users[u].joined_at < now
        /\ data[g].users[v].joined_at = now
        /\ data[g].created_at < now

\* ---- the groups of the store ----
\* C11: a group of the store stays in the store, whatever step is taken; its
\* history changes only in the step in which the job pairs it, so neither
\* /leave nor the roster clear after the announcement shortens or alters it.
C11_GroupsPersist ==
    [][\A g \in DOMAIN data :
          /\ g \in DOMAIN data'
          /\ data'[g].created_at = data[g].created_at
          /\ History(data', g) # History(data, g) => PairsGroup /\ g = PairedGroup
          /\ (AnnounceReturns /\ g = Awaited) => History(data', g) = History(data, g)]_vars
\* The group has been paired, announced and cleared, and it is still there
\* with its full history, this week's record last.
C11_Witness ==
    /\ 1 \in DOMAIN data
    /\ Roster(data, 1) = {}
    /\ jobPc = "idle"
    /\ \E i \in 1..Len(jobLog) : jobLog[i] = "sent_cleared"
    /\ Len(History(data, 1)) = HistoryLimit
    /\ LastRecord(data, 1).date = now

\* ---- the snapshot on disk ----
\* What a start of the process would load from the file as it is now.
Persisted == load_data(disk).value

\* C12: whenever the bot is idle, no handler and no weekly run in progress,
\* and every save so far has succeeded, the file holds the store as it is in
\* memory: every change of the store has been followed by a save.
C12_SavedWhenIdle == jobPc = "idle" => Persisted = data

\* The step in which the process starts.
Starts == jobPc = "down" /\ jobPc' # "down"

\* C13: the file is the recovery point.  Once it holds a snapshot, every
\* step leaves in it either that snapshot or the snapshot of the store as
\* the step leaves it, never less; and a start of the process finds that
\* snapshot and begins with exactly its contents.
C13_RecoveryPoint ==
    [][disk.state = "valid" =>
          /\ disk' = disk \/ disk' = Snapshot(data', order')
          /\ Starts => jobPc' = "idle" /\ data' = disk.content]_vars

\* C14: a start of the process never fails on the file.  With a valid
\* snapshot the store is its contents; with any other file, missing,
\* unreadable, not JSON or not a mapping, the process comes up with an empty
\* store, and with a file that is there and is no snapshot it has logged a
\* warning.
C14_StartupNeverFails ==
    [][Starts =>
          /\ jobPc' = "idle"
          /\ data' = (IF disk.state = "valid" THEN disk.content ELSE EmptyMap)
          /\ disk.state \notin {"valid", "missing"} => jobLog' = <<"load_warning">>]_vars

\* ---- saves that fail ----
\* A step of a command handler: the store or the file changes, the job and
\* the process stay where they are.
HandlerStep == ~JobStep /\ (data' # data \/ disk' # disk)
Logged(lg, line) == \E i \in 1..Len(lg) : lg[i] = line

\* C15: a save that fails rolls nothing back and stops nothing.  A handler
\* step that leaves the file without the store's snapshot is a /pairme that
\* answers Added or a /leave that answers Removed, and the store after it is
\* the one the same command leaves when its save succeeds; the bot goes on
\* taking commands.  A weekly run whose final save fails is completed all the
\* same, with the store as the run's last group left it.
C15_FailedSaveKeepsStore ==
    [][/\ (HandlerStep /\ disk' # Snapshot(data', order')) =>
             /\ \E g \in Chats, u \in Users :
                   \/ /\ PairmeReply(data, g, u, "group") = "Added"
                      /\ \E title \in Titles : data' = Register(data, g, u, title, now)
                      /\ PairmeReply(data', g, u, "group") = "AlreadyRegistered"
                   \/ /\ LeaveReply(data, g, u, "group") = "Removed"
                      /\ data' = Unregister(data, g, u)
                      /\ LeaveReply(data', g, u, "group") = "NotRegistered"
             /\ jobPc' = jobPc /\ CanRunHandler'
       /\ (JobStep /\ Logged(jobLog', "save_failed")) =>
             /\ jobPc' = "idle"
             /\ jobLog'[Len(jobLog')] = "completed"
             /\ \A g \in DOMAIN data :
                   /\ History(data', g) = History(data, g)
                   /\ Roster(data', g) =
                         IF jobPc = "await_announce" /\ g = Awaited /\ outbox'[Len(outbox)].ok = "ok"
                         THEN {} ELSE Roster(data, g)]_vars
\* The run's final save has failed; somebody has registered since and is in
\* the store, though the file has no snapshot of it.
C15_Witness ==
    /\ jobPc = "idle"
    /\ Logged(jobLog, "save_failed") /\ Logged(jobLog, "sent_cleared")
    /\ 1 \in DOMAIN data
    /\ Cardinality(Roster(data, 1)) = 1
    /\ disk = Corrupt

\* ---- /leave ----
\* C16: a /leave that changes anything at all is one by a participant of the
\* group's roster: it answers Removed, and the store after it is the store
\* before it without that participant in that group, every other participant,
\* the group's title and history and every other group as they were.  So a
\* /leave that answers NotRegistered, the group or the participant being
\* unknown, changes nothing and creates no group.
C16_Unregister ==
    [][\A g \in Chats : \A u \in Users :
          (/\ HandlerStep
           /\ \E outcome \in SaveOutcomes : leave(g, u, "group", outcome)) =>
              /\ LeaveReply(data, g, u, "group") = "Removed"
              /\ g \in DOMAIN data /\ u \in Roster(data, g)
              /\ Roster(data', g) = Roster(data, g) \ {u}
              /\ \A v \in Roster(data', g) : data'[g].users[v] = data[g].users[v]
              /\ History(data', g) = History(data, g)
              /\ data'[g].chat_title = data[g].chat_title
              /\ data'[g].created_at = data[g].created_at
              /\ DOMAIN data' = DOMAIN data
              /\ \A h \in DOMAIN data \ {g} : data'[h] = data[h]
              /\ order' = order
              /\ LeaveReply(data', g, u, "group") = "NotRegistered"]_vars
\* Before the first weekly run: everybody who had registered in group 1 has
\* left it, the participant of group 2 is still registered.
C16_Witness ==
    /\ now = ClockStart
    /\ DOMAIN data = {1, 2}
    /\ Roster(data, 1) = {}
    /\ Roster(data, 2) = {1}
    /\ disk = Snapshot(data, order)

\* ---- commands from private chats ----
\* A command from a private chat, whoever sends it and whatever the chat is
\* called, whether or not its chat id is the key of a group.
PrivateCommand(g, u) ==
    \/ \E title \in Titles, outcome \in SaveOutcomes : pairme(g, u, "private", title, outcome)
    \/ \E outcome \in SaveOutcomes : leave(g, u, "private", outcome)
    \/ mypair(g, u, "private")
    \/ status(g, u, "private")

\* C17: /pairme, /leave, /mypair and /status from a private chat are
\* answered with the rejection, and no such command can change anything:
\* not the store (no group, no title, no roster, no history), not the file.
C17_PrivateRejected ==
    \A g \in Chats : \A u \in Users :
        /\ PairmeReply(data, g, u, "private") = "private"
        /\ LeaveReply(data, g, u, "private") = "private"
        /\ MypairReply(data, g, u, "private").result = "private"
        /\ StatusReply(data, g, "private").result = "private"
        /\ ~ENABLED (PrivateCommand(g, u) /\ vars' # vars)
\* The commands can come in private from a registered participant of a group
\* under its old title, and from a chat that is no group of the store.
C17_Witness ==
    /\ jobPc = "await_announce"
    /\ DOMAIN data = {1}
    /\ data[1].chat_title = "Fellowship"
    /\ 1 \in Roster(data, 1)
    /\ ENABLED PrivateCommand(1, 1)
    /\ ENABLED PrivateCommand(2, 3)

\* ---- /mypair after a week without a partner ----
\* C18: when the most recent record that holds the participant holds them as
\* its singleton, /mypair shows no last partner and no date: the lookup has
\* stopped at that record and not gone on to an earlier one.
C18_StopsAtSingleton ==
    \A g \in DOMAIN data : \A u \in Users :
        LET h == History(data, g)
            k == MostRecentWith(h, u)
            reply == MypairReply(data, g, u, "group")
        IN  (k > 0 /\ PartnerInRecord(h[k], u) = NoneName) =>
                reply.partner = NoneName /\ reply.date = NoneDate

\* ---- the weekly run and the groups that appear during it ----
\* The step that ends a weekly run which found groups in the store.
RunEnds == JobStep /\ jobPc' = "idle" /\ DOMAIN data # {}

\* C19: a weekly run that found groups ends by completing: it has gone
\* through all the groups that were there when it began, it has called
\* save_data, and it has raised nothing, also when a command has added a
\* group to the store while the run was waiting for a send.
C19_RunCompletes ==
    [][RunEnds =>
          /\ ~Logged(jobLog', "raised")
          /\ jobLog'[Len(jobLog')] = "completed"
          /\ disk' = Snapshot(data', order') \/ Logged(jobLog', "save_failed")]_vars

\* ---- the messages of a weekly run ----
\* The step in which the job calls send_message, the group it is for, the
\* message, and the sends of the run before this one.
Sends == JobStep /\ jobPc' \in {"await_need", "await_announce"}
SentTo == order[jobIdx']
Sent == outbox'[Len(outbox')]
SentBefore == IF jobPc = "idle" THEN <<>> ELSE outbox
\* The names a record's entry stands for, as a line of the announcement.
LineOf(entry) == <<entry.user1_name, entry.user2_name>>

\* C20: the sends of a run are to different groups, one at a time.  Each
\* send is one message more for the group being processed, which has got
\* none in this run before: the call for more participants, history
\* untouched, if its roster has one participant; the announcement, with one
\* line for every outcome of the record appended in the same step, in the
\* record's order, if it has two or more.  The groups passed over on the way
\* have empty rosters.  A step of the job that sends nothing adds no message:
\* a send that failed is not tried again.
C20_OneMessagePerGroup ==
    /\ [](/\ \A i, j \in 1..Len(outbox) : i < j => outbox[i].chat # outbox[j].chat
          /\ \A i \in 1..Len(outbox) : outbox[i].ok = "pending" =>
                i = Len(outbox) /\ jobPc \in {"await_need", "await_announce"})
    /\ [][/\ Sends =>
                /\ Len(outbox') = Len(SentBefore) + 1
                /\ \A i \in 1..Len(SentBefore) :
                      /\ outbox'[i].chat = SentBefore[i].chat
                      /\ outbox'[i].kind = SentBefore[i].kind
                      /\ outbox'[i].lines = SentBefore[i].lines
                      /\ outbox'[i].chat # SentTo
                /\ Sent.chat = SentTo /\ Sent.ok = "pending"
                /\ Roster(data, SentTo) # {}
                /\ Cardinality(Roster(data, SentTo)) = 1 =>
                      /\ Sent.kind = "need"
                      /\ History(data', SentTo) = History(data, SentTo)
                /\ Cardinality(Roster(data, SentTo)) >= 2 =>
                      /\ Sent.kind = "pairings"
                      /\ LastRecord(data', SentTo).date = now'
                      /\ Len(Sent.lines) = Len(LastRecord(data', SentTo).pairs)
                      /\ \A i \in 1..Len(Sent.lines) :
                            Sent.lines[i] = LineOf(LastRecord(data', SentTo).pairs[i])
                /\ \A i \in ((IF jobPc = "idle" THEN 0 ELSE jobIdx) + 1)..(jobIdx' - 1) :
                      Roster(data, order[i]) = {}
          /\ (JobStep /\ ~Sends) => Len(outbox') = Len(SentBefore)]_vars
\* A completed run over a group of three and a group of one: an announcement
\* of two lines, the second for the odd one out, and one call for more.
C20_Witness ==
    /\ jobPc = "idle"
    /\ Logged(jobLog, "completed")
    /\ Len(outbox) = 2
    /\ outbox[1].kind = "pairings" /\ Len(outbox[1].lines) = 2
    /\ outbox[1].lines[2][2] = NoneName
    /\ outbox[1].ok = "failed"
    /\ outbox[2].kind = "need" /\ outbox[2].chat = 2

====
